---- MODULE Spec2Model ----
(***************************************************************************)
(* The Gilded Gaze API (src/main.py, src/schemas.py): a FastAPI storefront *)
(* over a MongoDB document store.  The store's collections are sequences   *)
(* of documents in insertion order; every request handler is a process     *)
(* whose steps are its store operations (find_one, count_documents,        *)
(* update_one, insert), each of them atomic in the store.                  *)
(***************************************************************************)
EXTENDS Integers, Sequences, FiniteSets, TLC

VARIABLES
    config,      \* db["config"]
    collection,  \* db["collection"]
    product,     \* db["product"]
    inventory,   \* db["inventory"]
    review,      \* db["review"]
    order,       \* db["order"]
    pc,          \* per worker: the handler position of the request it serves
    req,         \* per worker: the request it serves (or served last)
    loc,         \* per worker: the handler's local variables
    resp,        \* per worker: the response of the last request it completed
    pre,         \* what the store held when a request last arrived at an idle server
    created,     \* the inventory documents as they were inserted
    lastToggle,  \* the flag of the most recent completed toggle request
    seeded,      \* a seed request has completed
    last,        \* the worker that completed a request with no arrival since, or 0
    started      \* number of requests received so far

vars == <<config, collection, product, inventory, review, order, pc, req, loc,
          resp, pre, created, lastToggle, seeded, last, started>>

store == <<config, collection, product, inventory, review, order>>

----------------------------------------------------------------------------
(* Bounds of the model *)

NumWorkers == 2
MaxRequests == 3
MaxItems == 2

Procs == 1..NumWorkers

(* Product references a client may send: ids of the first seeded products and
   an id that names no product. *)
ProductRefs == {1, 9}
QtyChoices == {20, 30}
ReviewRefs == {1}
RatingChoices == {0, 1, 5, 6}

----------------------------------------------------------------------------
(* schemas.py *)

ConfigSchema(active) ==
    [limited_edition_active |-> active, limited_edition_name |-> "Celestial Gaze"]

CollectionSchema(handle, is_limited) == [handle |-> handle, is_limited |-> is_limited]

ProductSchema(title, handle) == [title |-> title, collection_handle |-> handle]

InventorySchema(product_id, quantity) == [product_id |-> product_id, quantity |-> quantity]

(* Review.rating: Field(..., ge=1, le=5): constructing the model raises a
   ValidationError otherwise. *)
ReviewSchemaValid(rating) == rating >= 1 /\ rating <= 5

ReviewSchema(product_id, rating) == [product_id |-> product_id, rating |-> rating]

(* What a client sends as an order line: the title is the client's snapshot
   of the product's title. *)
ClientTitle(ref) ==
    CASE ref = 1 -> "The Classic Heirloom"
      [] OTHER -> "Unlisted"

OrderItem == [product_id : ProductRefs, quantity : QtyChoices]

Item(it) == [product_id |-> it.product_id, title |-> ClientTitle(it.product_id),
             quantity |-> it.quantity]

OrderSchema(items) == [items |-> items]

----------------------------------------------------------------------------
(* The document store (pymongo) and database.py *)

(* create_document(collection_name, data): inserts the document and returns
   the id the store assigned to it.  No handler deletes, so the position of a
   document in its collection identifies it. *)
NewId(coll) == Len(coll) + 1

create_document(coll, data) == Append(coll, [_id |-> NewId(coll)] @@ data)

(* fault variant of the emptiness guard: off by one *)
AtMostOne(coll) == Len(coll) <= 1

(* db[c].count_documents({}) is 0 *)
IsEmpty(coll) == Len(coll) = 0

(* db[c].find_one({}): position of the first document, 0 for None *)
find_one_any(coll) == IF Len(coll) = 0 THEN 0 ELSE 1

(* The inventory collection is kept as the set of its documents: the only
   filter the handlers use on it is product_id, and every inventory document
   is inserted for a product id the store has just assigned, so at most one
   document matches a filter and the insertion order is never observed. *)
None == [product_id |-> 0, quantity |-> 0]

insert_inventory(inv, doc) == inv \cup {doc}

(* db["inventory"].find_one({"product_id": pid}): the matching document, or None *)
find_one_inventory(inv, pid) ==
    IF \E d \in inv : d.product_id = pid
    THEN CHOOSE d \in inv : d.product_id = pid
    ELSE None

(* fault variant of the decrement: $set in place of $inc *)
update_one_set(inv, pid, d) ==
    LET doc == find_one_inventory(inv, pid)
    IN  IF doc = None THEN inv
        ELSE (inv \ {doc}) \cup {[doc EXCEPT !.quantity = d]}

(* db["inventory"].update_one({"product_id": pid}, {"$inc": {"quantity": d}}) *)
update_one_inc(inv, pid, d) ==
    LET doc == find_one_inventory(inv, pid)
    IN  IF doc = None THEN inv
        ELSE (inv \ {doc}) \cup {[doc EXCEPT !.quantity = doc.quantity + d]}

(* db["config"].update_one({"_id": id}, {"$set": {"limited_edition_active": b}}) *)
update_one_set_active(conf, id, b) ==
    [i \in 1..Len(conf) |->
        IF conf[i]._id = id THEN [conf[i] EXCEPT !.limited_edition_active = b]
        ELSE conf[i]]

----------------------------------------------------------------------------
(* Requests, responses and handler locals *)

NoReq == [kind |-> "none", items |-> <<>>, active |-> FALSE, product_id |-> 0, rating |-> 0,
          after_seed |-> FALSE]

Request(kind) == [NoReq EXCEPT !.kind = kind]

NoLoc == [i |-> 0, id |-> 0]

NoResp == [status |-> 0, detail |-> "", title |-> "", id |-> 0,
           active |-> FALSE, name |-> ""]

NoPre == [inventory |-> {}, order |-> <<>>, review |-> <<>>]

Snapshot == [inventory |-> inventory, order |-> order, review |-> review]

Ok(id) == [NoResp EXCEPT !.status = 200, !.id = id]

AllIdle == \A q \in Procs : pc[q] = "idle"

Init ==
    /\ config = <<>>
    /\ collection = <<>>
    /\ product = <<>>
    /\ inventory = {}
    /\ review = <<>>
    /\ order = <<>>
    /\ pc = [p \in Procs |-> "idle"]
    /\ req = [p \in Procs |-> NoReq]
    /\ loc = [p \in Procs |-> NoLoc]
    /\ resp = [p \in Procs |-> NoResp]
    /\ pre = NoPre
    /\ created = {}
    /\ lastToggle = FALSE
    /\ seeded = FALSE
    /\ last = 0
    /\ started = 0

(* A request arrives and is given to the first idle worker, which enters the
   handler at `label`.  The bookkeeping of the requests that were answered
   before is dropped. *)
Arrive(p, r, label, l) ==
    /\ pc[p] = "idle"
    /\ \A q \in Procs : q < p => pc[q] # "idle"
    /\ started < MaxRequests
    /\ started' = started + 1
    /\ req' = [q \in Procs |-> IF q = p THEN [r EXCEPT !.after_seed = seeded]
                              ELSE IF pc[q] = "idle" THEN NoReq ELSE req[q]]
    /\ pre' = IF AllIdle THEN Snapshot ELSE pre
    /\ resp' = [q \in Procs |-> IF pc[q] = "idle" THEN NoResp ELSE resp[q]]
    /\ pc' = [pc EXCEPT ![p] = label]
    /\ loc' = [loc EXCEPT ![p] = l]
    /\ last' = 0
    /\ UNCHANGED <<store, created, lastToggle, seeded>>

(* The handler moves on to its next store operation. *)
Goto(p, label, l) ==
    /\ pc' = [pc EXCEPT ![p] = label]
    /\ loc' = [loc EXCEPT ![p] = l]

(* The handler returns or raises: the response goes out. *)
Return(p, r) ==
    /\ pc' = [pc EXCEPT ![p] = "idle"]
    /\ loc' = [loc EXCEPT ![p] = NoLoc]
    /\ resp' = [resp EXCEPT ![p] = r]
    /\ last' = p

----------------------------------------------------------------------------
(* POST /seed *)

SeedCatalog == <<
    [title |-> "The Classic Heirloom", handle |-> "core", quantity |-> 50],
    [title |-> "The Sapphire Serenity", handle |-> "celestial-gaze", quantity |-> 20],
    [title |-> "The Amethyst Aura", handle |-> "celestial-gaze", quantity |-> 20],
    [title |-> "The Rose Gold Reverie", handle |-> "celestial-gaze", quantity |-> 20],
    [title |-> "The Celestial Kit", handle |-> "celestial-gaze", quantity |-> 10] >>

SeedCollections == <<CollectionSchema("core", FALSE), CollectionSchema("celestial-gaze", TRUE)>>

seed_arrive(p) == Arrive(p, Request("seed"), "seed_config", NoLoc)

(* if the config collection is empty *)
seed_config(p) ==
    /\ pc[p] = "seed_config"
    /\ Goto(p, IF IsEmpty(config) THEN "seed_config_insert" ELSE "seed_collection", NoLoc)
    /\ UNCHANGED <<store, req, resp, pre, created, lastToggle, seeded, last, started>>

seed_config_insert(p) ==
    /\ pc[p] = "seed_config_insert"
    /\ config' = create_document(config, ConfigSchema(FALSE))
    /\ Goto(p, "seed_collection", NoLoc)
    /\ UNCHANGED <<collection, product, inventory, review, order, req, resp, pre,
                   created, lastToggle, seeded, last, started>>

(* if the collection collection is empty *)
seed_collection(p) ==
    /\ pc[p] = "seed_collection"
    /\ IF IsEmpty(collection)
       THEN Goto(p, "seed_collection_insert", [NoLoc EXCEPT !.i = 1])
       ELSE Goto(p, "seed_product", NoLoc)
    /\ UNCHANGED <<store, req, resp, pre, created, lastToggle, seeded, last, started>>

seed_collection_insert(p) ==
    /\ pc[p] = "seed_collection_insert"
    /\ collection' = create_document(collection, SeedCollections[loc[p].i])
    /\ IF loc[p].i < Len(SeedCollections)
       THEN Goto(p, "seed_collection_insert", [NoLoc EXCEPT !.i = loc[p].i + 1])
       ELSE Goto(p, "seed_product", NoLoc)
    /\ UNCHANGED <<config, product, inventory, review, order, req, resp, pre,
                   created, lastToggle, seeded, last, started>>

(* if the product collection is empty; otherwise return *)
seed_product(p) ==
    /\ pc[p] = "seed_product"
    /\ IF IsEmpty(product)
       THEN /\ Goto(p, "seed_product_insert", [NoLoc EXCEPT !.i = 1])
            /\ UNCHANGED <<resp, seeded, last>>
       ELSE /\ Return(p, [NoResp EXCEPT !.status = 200, !.detail = "seeded"])
            /\ seeded' = TRUE
    /\ UNCHANGED <<store, req, pre, created, lastToggle, started>>

(* pid = create_document("product", ProductSchema(...)) *)
seed_product_insert(p) ==
    /\ pc[p] = "seed_product_insert"
    /\ product' = create_document(product,
                      ProductSchema(SeedCatalog[loc[p].i].title, SeedCatalog[loc[p].i].handle))
    /\ Goto(p, "seed_inventory_insert", [loc[p] EXCEPT !.id = NewId(product)])
    /\ UNCHANGED <<config, collection, inventory, review, order, req, resp, pre,
                   created, lastToggle, seeded, last, started>>

(* create_document("inventory", InventorySchema(product_id=pid, quantity=...)) *)
seed_inventory_insert(p) ==
    /\ pc[p] = "seed_inventory_insert"
    /\ inventory' = insert_inventory(inventory,
                        InventorySchema(loc[p].id, SeedCatalog[loc[p].i].quantity))
    /\ created' = insert_inventory(created,
                        InventorySchema(loc[p].id, SeedCatalog[loc[p].i].quantity))
    /\ IF loc[p].i < Len(SeedCatalog)
       THEN /\ Goto(p, "seed_product_insert", [NoLoc EXCEPT !.i = loc[p].i + 1])
            /\ UNCHANGED <<resp, seeded, last>>
       ELSE /\ Return(p, [NoResp EXCEPT !.status = 200, !.detail = "seeded"])
            /\ seeded' = TRUE
    /\ UNCHANGED <<config, collection, product, review, order, req, pre,
                   lastToggle, started>>

seed(p) ==
    \/ seed_config(p)
    \/ seed_config_insert(p)
    \/ seed_collection(p)
    \/ seed_collection_insert(p)
    \/ seed_product(p)
    \/ seed_product_insert(p)
    \/ seed_inventory_insert(p)

----------------------------------------------------------------------------
(* GET /config, POST /config/toggle *)

(* get_config(): the first config document, or the hardcoded default *)
get_config ==
    IF find_one_any(config) = 0
    THEN [NoResp EXCEPT !.status = 200, !.active = FALSE, !.name = "Celestial Gaze"]
    ELSE [NoResp EXCEPT !.status = 200,
                        !.id = config[find_one_any(config)]._id,
                        !.active = config[find_one_any(config)].limited_edition_active,
                        !.name = config[find_one_any(config)].limited_edition_name]

get_config_arrive(p) == Arrive(p, Request("get_config"), "get_config", NoLoc)

get_config_return(p) ==
    /\ pc[p] = "get_config"
    /\ Return(p, get_config)
    /\ UNCHANGED <<store, req, pre, created, lastToggle, seeded, started>>

toggle_arrive(p, b) ==
    Arrive(p, [Request("toggle") EXCEPT !.active = b], "toggle_find", NoLoc)

(* existing = db["config"].find_one({}) *)
toggle_find(p) ==
    /\ pc[p] = "toggle_find"
    /\ Goto(p, "toggle_write", [NoLoc EXCEPT !.id = find_one_any(config)])
    /\ UNCHANGED <<store, req, resp, pre, created, lastToggle, seeded, last, started>>

ToggleResponse(b) == [NoResp EXCEPT !.status = 200, !.active = b]

(* fault variant of the toggle: inserts a document although one exists *)
toggle_update_inserting(p) ==
    /\ pc[p] = "toggle_write"
    /\ loc[p].id # 0
    /\ config' = create_document(config, ConfigSchema(req[p].active))
    /\ Return(p, ToggleResponse(req[p].active))
    /\ lastToggle' = req[p].active
    /\ UNCHANGED <<collection, product, inventory, review, order, req, pre,
                   created, seeded, started>>

(* if existing: update_one({"_id": existing["_id"]}, {"$set": ...}) *)
toggle_update(p) ==
    /\ pc[p] = "toggle_write"
    /\ loc[p].id # 0
    /\ config' = update_one_set_active(config, loc[p].id, req[p].active)
    /\ Return(p, ToggleResponse(req[p].active))
    /\ lastToggle' = req[p].active
    /\ UNCHANGED <<collection, product, inventory, review, order, req, pre,
                   created, seeded, started>>

(* else: create_document("config", ConfigSchema(limited_edition_active=...)) *)
toggle_insert(p) ==
    /\ pc[p] = "toggle_write"
    /\ loc[p].id = 0
    /\ config' = create_document(config, ConfigSchema(req[p].active))
    /\ Return(p, ToggleResponse(req[p].active))
    /\ lastToggle' = req[p].active
    /\ UNCHANGED <<collection, product, inventory, review, order, req, pre,
                   created, seeded, started>>

toggle_config(p) ==
    \/ toggle_find(p)
    \/ toggle_update(p)
    \/ toggle_insert(p)

----------------------------------------------------------------------------
(* POST /checkout *)

Orders == UNION {[1..n -> OrderItem] : n \in 0..MaxItems}

(* fault variant of the stock test: only the missing record is noticed *)
MissingRecord(inv, item) == find_one_inventory(inv, item.product_id) = None

(* not inv or inv.get("quantity", 0) < item.quantity *)
InsufficientStock(inv, item) ==
    \/ find_one_inventory(inv, item.product_id) = None
    \/ find_one_inventory(inv, item.product_id).quantity < item.quantity

checkout_arrive(p, o) ==
    Arrive(p, [Request("checkout") EXCEPT !.items = [i \in 1..Len(o) |-> Item(o[i])]],
           IF Len(o) = 0 THEN "checkout_order" ELSE "checkout_validate",
           IF Len(o) = 0 THEN NoLoc ELSE [NoLoc EXCEPT !.i = 1])

(* fault variant of the checkout: one loop that deducts each item as soon as
   it has validated it *)
checkout_validate_deducting(p) ==
    /\ pc[p] = "checkout_validate"
    /\ LET item == req[p].items[loc[p].i]
       IN  IF InsufficientStock(inventory, item)
           THEN /\ Return(p, [NoResp EXCEPT !.status = 400,
                                            !.detail = "Insufficient stock for",
                                            !.title = item.title])
                /\ inventory' = inventory
           ELSE /\ inventory' = update_one_inc(inventory, item.product_id, -item.quantity)
                /\ IF loc[p].i < Len(req[p].items)
                   THEN Goto(p, "checkout_validate", [NoLoc EXCEPT !.i = loc[p].i + 1])
                   ELSE Goto(p, "checkout_order", NoLoc)
                /\ UNCHANGED <<resp, last>>
    /\ UNCHANGED <<config, collection, product, review, order, req, pre, created,
                   lastToggle, seeded, started>>

(* first loop: find_one the item's inventory record, raise HTTPException(400)
   if it is missing or short *)
checkout_validate(p) ==
    /\ pc[p] = "checkout_validate"
    /\ LET item == req[p].items[loc[p].i]
       IN  IF InsufficientStock(inventory, item)
           THEN Return(p, [NoResp EXCEPT !.status = 400,
                                         !.detail = "Insufficient stock for",
                                         !.title = item.title])
           ELSE /\ IF loc[p].i < Len(req[p].items)
                   THEN Goto(p, "checkout_validate", [NoLoc EXCEPT !.i = loc[p].i + 1])
                   ELSE Goto(p, "checkout_deduct", [NoLoc EXCEPT !.i = 1])
                /\ UNCHANGED <<resp, last>>
    /\ UNCHANGED <<store, req, pre, created, lastToggle, seeded, started>>

(* fault variant of the deduct loop: it stops after the first item *)
checkout_deduct_first_only(p) ==
    /\ pc[p] = "checkout_deduct"
    /\ LET item == req[p].items[loc[p].i]
       IN  inventory' = update_one_inc(inventory, item.product_id, -item.quantity)
    /\ Goto(p, "checkout_order", NoLoc)
    /\ UNCHANGED <<config, collection, product, review, order, req, resp, pre,
                   created, lastToggle, seeded, last, started>>

(* second loop: update_one(..., {"$inc": {"quantity": -item.quantity}}) *)
checkout_deduct(p) ==
    /\ pc[p] = "checkout_deduct"
    /\ LET item == req[p].items[loc[p].i]
       IN  inventory' = update_one_inc(inventory, item.product_id, -item.quantity)
    /\ IF loc[p].i < Len(req[p].items)
       THEN Goto(p, "checkout_deduct", [NoLoc EXCEPT !.i = loc[p].i + 1])
       ELSE Goto(p, "checkout_order", NoLoc)
    /\ UNCHANGED <<config, collection, product, review, order, req, resp, pre,
                   created, lastToggle, seeded, last, started>>

(* oid = create_document("order", order); return {"ok": True, "order_id": oid} *)
checkout_order(p) ==
    /\ pc[p] = "checkout_order"
    /\ order' = create_document(order, OrderSchema(req[p].items))
    /\ Return(p, Ok(NewId(order)))
    /\ UNCHANGED <<config, collection, product, inventory, review, req, pre,
                   created, lastToggle, seeded, started>>

checkout(p) ==
    \/ checkout_validate(p)
    \/ checkout_deduct(p)
    \/ checkout_order(p)

----------------------------------------------------------------------------
(* POST /products/{product_id}/reviews *)

(* NewReview accepts any integer rating; ReviewSchema(...) is built inside the
   handler, where its ValidationError is no request validation error and goes
   out as an unhandled exception, before create_document is called. *)
add_review_arrive(p, product_id, rating) ==
    Arrive(p, [Request("review") EXCEPT !.product_id = product_id, !.rating = rating],
           "add_review", NoLoc)

add_review(p) ==
    /\ pc[p] = "add_review"
    /\ IF ReviewSchemaValid(req[p].rating)
       THEN /\ review' = create_document(review, ReviewSchema(req[p].product_id, req[p].rating))
            /\ Return(p, Ok(NewId(review)))
       ELSE /\ review' = review
            /\ Return(p, [NoResp EXCEPT !.status = 500, !.detail = "Internal Server Error"])
    /\ UNCHANGED <<config, collection, product, inventory, order, req, pre, created,
                   lastToggle, seeded, started>>

----------------------------------------------------------------------------
(* The server *)

(* a request arrives *)
Accept(p) ==
    \/ seed_arrive(p)
    \/ get_config_arrive(p)
    \/ \E b \in BOOLEAN : toggle_arrive(p, b)
    \/ \E o \in Orders : checkout_arrive(p, o)
    \/ \E r \in ReviewRefs, n \in RatingChoices : add_review_arrive(p, r, n)

(* a request in flight performs its next store operation *)
Handle(p) ==
    \/ seed(p)
    \/ get_config_return(p)
    \/ toggle_config(p)
    \/ checkout(p)
    \/ add_review(p)

(* Requests are handled concurrently: any worker may accept or proceed. *)
Next == \E p \in Procs : Accept(p) \/ Handle(p)

Spec == Init /\ [][Next]_vars

(* Requests arrive one at a time: each completes before the next starts. *)
SeqNext == \E p \in Procs : (AllIdle /\ Accept(p)) \/ Handle(p)

SeqSpec == Init /\ [][SeqNext]_vars

----------------------------------------------------------------------------
(* Quantities the properties speak of *)

(* inv["quantity"] if inv else 0: the stock the catalog shows for a product *)
StockOf(inv, pid) == find_one_inventory(inv, pid).quantity

RECURSIVE Requested(_, _)
(* total quantity the line items ask of product pid *)
Requested(items, pid) ==
    IF Len(items) = 0 THEN 0
    ELSE (IF Head(items).product_id = pid THEN Head(items).quantity ELSE 0)
         + Requested(Tail(items), pid)

RECURSIVE Sold(_, _)
(* total quantity of product pid over the line items of the persisted orders *)
Sold(orders, pid) ==
    IF Len(orders) = 0 THEN 0
    ELSE Requested(Head(orders).items, pid) + Sold(Tail(orders), pid)

(* worker p has just answered a request of this kind, and no request has
   arrived since *)
Answered(p, kind) == last = p /\ req[p].kind = kind

(* item i of worker p's order asked for more than the stock held when the
   request arrived (a product with no inventory record has none) *)
Short(p, i) ==
    \A d \in pre.inventory :
        d.product_id = req[p].items[i].product_id => d.quantity < req[p].items[i].quantity

Rejected(p) == resp[p].status = 400 /\ resp[p].detail = "Insufficient stock for"

NoCheckoutInFlight ==
    \A p \in Procs : pc[p] \notin {"checkout_validate", "checkout_deduct", "checkout_order"}

----------------------------------------------------------------------------
(* C1: a checkout in which some line item asks for more than the current
   stock of its product is rejected with "Insufficient stock" (400), wherever
   the item sits in the list, and leaves the inventory and the orders exactly
   as they were when it arrived. *)
C1_ShortCheckoutRejectedWithoutEffect ==
    \A p \in Procs :
        (Answered(p, "checkout") /\ \E i \in 1..Len(req[p].items) : Short(p, i))
        => /\ Rejected(p)
           /\ inventory = pre.inventory
           /\ order = pre.order

(* the offending item comes second, after an item the stock covers, and its
   product has a record *)
C1_Witness ==
    \E p \in Procs :
        /\ Answered(p, "checkout")
        /\ Len(req[p].items) = 2
        /\ ~Short(p, 1)
        /\ Short(p, 2)
        /\ StockOf(pre.inventory, req[p].items[2].product_id) > 0
        /\ Rejected(p)

(* C2: a checkout run alone in which every line item's quantity is within the
   current stock of its product succeeds, appends exactly one order holding
   the full item list, and lowers each product's stock by exactly the total
   its line items ask for (products not in the order keep their stock). *)
C2_CoveredCheckoutCommits ==
    \A p \in Procs :
        (Answered(p, "checkout") /\ \A i \in 1..Len(req[p].items) : ~Short(p, i))
        => /\ resp[p].status = 200
           /\ resp[p].id = Len(pre.order) + 1
           /\ Len(order) = Len(pre.order) + 1
           /\ SubSeq(order, 1, Len(pre.order)) = pre.order
           /\ order[Len(order)].items = req[p].items
           /\ inventory = {[d EXCEPT !.quantity = d.quantity - Requested(req[p].items, d.product_id)] :
                              d \in pre.inventory}

(* a two-item order went through and took stock *)
C2_Witness ==
    \E p \in Procs :
        /\ Answered(p, "checkout")
        /\ Len(req[p].items) = 2
        /\ \A i \in 1..2 : ~Short(p, i)
        /\ resp[p].status = 200
        /\ inventory # pre.inventory

(* C3: after any sequence of checkouts run one at a time, every inventory
   quantity is >= 0. *)
C3_StockNeverNegative == \A d \in inventory : d.quantity >= 0

(* C4: of two checkouts handled concurrently that ask Q1 and Q2 of the same
   product with stock S, where Q1 <= S, Q2 <= S and Q1 + Q2 > S, exactly one
   succeeds, the other is rejected, and the stock is not negative.  Both
   answers are in and no other request has arrived since the second of them;
   S is the stock left plus what the successful ones took. *)
C4_ExactlyOneConcurrentCheckoutWins ==
    \A p, q \in Procs :
        (/\ p < q
         /\ pc[p] = "idle" /\ pc[q] = "idle"
         /\ req[p].kind = "checkout" /\ req[q].kind = "checkout"
         /\ Len(req[p].items) = 1 /\ Len(req[q].items) = 1
         /\ req[p].items[1].product_id = req[q].items[1].product_id
         /\ find_one_inventory(inventory, req[p].items[1].product_id) # None)
        => LET pid == req[p].items[1].product_id
               Q1 == req[p].items[1].quantity
               Q2 == req[q].items[1].quantity
               S == StockOf(inventory, pid)
                    + (IF resp[p].status = 200 THEN Q1 ELSE 0)
                    + (IF resp[q].status = 200 THEN Q2 ELSE 0)
           IN  (Q1 <= S /\ Q2 <= S /\ Q1 + Q2 > S)
               => /\ \/ resp[p].status = 200 /\ Rejected(q)
                     \/ resp[q].status = 200 /\ Rejected(p)
                  /\ StockOf(inventory, pid) >= 0

(* C5: a seed request that arrives after a seed request has completed creates
   no document: none of its steps changes the config, collection, product or
   inventory collections. *)
C5_SecondSeedCreatesNothing ==
    [][\A p \in Procs :
          (/\ req[p].kind = "seed"
           /\ req[p].after_seed
           /\ pc[p] # "idle"
           /\ pc'[p] # pc[p] \/ loc'[p] # loc[p])
          => UNCHANGED <<config, collection, product, inventory>>]_vars

(* a seed that arrived after a completed seed has itself completed *)
C5_Witness ==
    \E p \in Procs : Answered(p, "seed") /\ req[p].after_seed /\ Len(product) > 0

(* C6: the config collection holds at most one document, under any
   interleaving of seed and toggle requests. *)
C6_ConfigSingleton == Len(config) <= 1

(* what GET /config answers between requests, and what it has just answered *)
C7_ConfigAnswer ==
    /\ AllIdle => /\ get_config.active = lastToggle
                  /\ get_config.name = "Celestial Gaze"
                  /\ get_config.status = 200
    /\ \A p \in Procs : Answered(p, "get_config") => resp[p] = get_config

(* a toggle that answers while a config document exists *)
C7_ToggleKeepsDocument ==
    (\E p \in Procs : pc[p] = "toggle_write" /\ pc'[p] = "idle" /\ Len(config) > 0)
    => /\ Len(config') = Len(config)
       /\ \A i \in 1..Len(config) :
              /\ config'[i]._id = config[i]._id
              /\ config'[i].limited_edition_name = config[i].limited_edition_name

(* C7: with requests run one at a time, GET /config answers the flag of the
   most recent completed toggle (false if there was none, also on the empty
   store) and the name "Celestial Gaze"; a toggle that finds a config
   document keeps the collection's documents and changes nothing but the
   flag. *)
C7_GetConfigFollowsToggle == []C7_ConfigAnswer /\ [][C7_ToggleKeepsDocument]_vars

(* GET /config has answered true from a stored document *)
C7_Witness ==
    \E p \in Procs :
        /\ Answered(p, "get_config")
        /\ resp[p].active
        /\ Len(config) = 1

(* C8: a review with a rating outside [1,5] is rejected with status 422 and
   the review collection is unchanged; with a rating in [1,5] exactly one
   review for that product is appended. *)
C8_ReviewRatingChecked ==
    \A p \in Procs :
        Answered(p, "review")
        => IF req[p].rating < 1 \/ req[p].rating > 5
           THEN resp[p].status = 422 /\ review = pre.review
           ELSE /\ Len(review) = Len(pre.review) + 1
                /\ SubSeq(review, 1, Len(pre.review)) = pre.review
                /\ review[Len(review)].product_id = req[p].product_id
                /\ review[Len(review)].rating = req[p].rating

(* C9: checkout is rejected exactly when some line item names a product with
   no inventory record or with less stock than the item asks for, and the
   message names the title of the first such item. *)
C9_RejectedIffShortNamingFirst ==
    \A p \in Procs :
        Answered(p, "checkout")
        => /\ resp[p].status \in {200, 400}
           /\ Rejected(p) <=> \E i \in 1..Len(req[p].items) : Short(p, i)
           /\ Rejected(p) <=> resp[p].status = 400
           /\ Rejected(p)
              => \E i \in 1..Len(req[p].items) :
                     /\ Short(p, i)
                     /\ \A j \in 1..(i - 1) : ~Short(p, j)
                     /\ resp[p].title = req[p].items[i].title

(* both items are short, for two products with different titles, one of them
   with an inventory record *)
C9_Witness ==
    \E p \in Procs :
        /\ Answered(p, "checkout")
        /\ Len(req[p].items) = 2
        /\ Short(p, 1) /\ Short(p, 2)
        /\ req[p].items[1].title # req[p].items[2].title
        /\ \E i \in 1..2 : StockOf(pre.inventory, req[p].items[i].product_id) > 0
        /\ Rejected(p)

(* C10: whenever no checkout is in flight, every inventory record was
   inserted once for its product and its inserted quantity minus its current
   quantity equals the quantity sold of the product over all persisted
   orders; checkouts may have run in any interleaving. *)
C10_StockConservation ==
    NoCheckoutInFlight
    => /\ \A c \in created :
              /\ \E d \in inventory : d.product_id = c.product_id
              /\ c.quantity - StockOf(inventory, c.product_id) = Sold(order, c.product_id)
       /\ \A c, d \in inventory : c.product_id = d.product_id => c = d
       /\ \A o \in 1..Len(order) : \A i \in 1..Len(order[o].items) :
              \E c \in created : c.product_id = order[o].items[i].product_id

(* two overlapping checkouts of the same product have both gone through *)
C10_Witness ==
    /\ NoCheckoutInFlight
    /\ Len(order) = 2
    /\ \A p \in Procs : req[p].kind = "checkout" /\ resp[p].status = 200
    /\ \E d \in inventory : \A p \in Procs : Requested(req[p].items, d.product_id) > 0

====
